---- MODULE Spec2Model ----
(***************************************************************************)
(* The Munition test fixture (test_wasm/src/lib.rs): a WebAssembly module  *)
(* of exported functions over three groups of globals (BUFFER; STATE,      *)
(* HISTORY, HISTORY_INDEX), run by a host that meters fuel and classifies  *)
(* how an invocation stopped.                                              *)
(*                                                                         *)
(* The exports are translated block by block from lib.rs.  The host (the   *)
(* execution engine and its fuel meter) is not part of lib.rs; it is       *)
(* modelled from sections 3 and 4 of the specification: one unit of fuel   *)
(* per executed block (a function's entry block or one loop iteration).    *)
(*                                                                         *)
(* i32 is modelled with INT_BITS bits, two's complement.  The arrays are   *)
(* scaled with it so that, as in the source, their lengths stay far below  *)
(* the largest i32.                                                        *)
(***************************************************************************)
EXTENDS Integers, Sequences, FiniteSets, TLC

\* ------------------------------------------------------------------ sizes

\* Width of i32 and of usize (wasm32) in the model.
INT_BITS == 6

\* Length of HISTORY (lib.rs:168 has 100).
HISTORY_LEN == 2

\* Length of BUFFER (lib.rs:87 has 1024).
BUFFER_LEN == 2

\* Largest argument tried for crash_after_n.
MaxN == 3

\* Largest fuel budget of one invocation.
MaxFuel == 6

\* Longest invocation sequence replayed on the second Instance.
MaxScript == 2

\* (i % 256) as u8 in fill_incrementing.
BYTE_MOD == 256


\* ------------------------------------------------------------ i32, usize

MaxInt == 2^(INT_BITS - 1) - 1
MinInt == -(2^(INT_BITS - 1))
I32 == MinInt..MaxInt

\* The i32 with the bit pattern of x (two's complement wrap-around).
Wrap(x) == ((x - MinInt) % 2^INT_BITS) + MinInt

\* i32::wrapping_add
WrappingAdd(a, b) == Wrap(a + b)

\* `as usize` of an i32 on wasm32: the same bits read as unsigned.
AsUsize(x) == x % 2^INT_BITS

Min(a, b) == IF a <= b THEN a ELSE b

Abs(a) == IF a < 0 THEN -a ELSE a

\* Rust's % on i32: the remainder takes the sign of the dividend (b # 0).
Rem(a, b) == IF a < 0 THEN -(Abs(a) % Abs(b)) ELSE a % Abs(b)

\* ------------------------------------------------------------ the Instance

Zeros(n) == [k \in 0..(n - 1) |-> 0]

\* The globals of a freshly instantiated module.  STATE is spelled State: STATE
\* is a reserved word of TLA+.
FreshInstance ==
    [ BUFFER        |-> Zeros(BUFFER_LEN),
      State         |-> 0,
      HISTORY       |-> Zeros(HISTORY_LEN),
      HISTORY_INDEX |-> 0 ]

\* ExecutionOutcome.  NoOutcome: the invocation has not stopped.
NoOutcome     == [kind |-> "None", value |-> 0, trap |-> "-"]
Returned(v)   == [kind |-> "Returned", value |-> v, trap |-> "-"]
Trapped(k)    == [kind |-> "Trapped", value |-> 0, trap |-> k]
FuelExhausted == [kind |-> "FuelExhausted", value |-> 0, trap |-> "-"]

\* The activation of the export being run: its arguments and locals.
\*   pattern, arg : the parameters;  i : a for-loop's index;
\*   x : infinite_loop's local;  pc : "entry", "loop" or "panic".
Idle == [export |-> "idle", pc |-> "-", fuel |-> 0, pattern |-> 0, arg |-> 0,
         i |-> 0, x |-> 0]

\* What one block did: the globals, the activation, and the outcome when the
\* block ended the invocation.
Result(g, f, out) == [inst |-> g, frame |-> f, out |-> out]

\* The panic handler's loop {}: a panic never returns and never traps.
panic(g, f) == Result(g, [f EXCEPT !.pc = "panic"], NoOutcome)

\* --------------------------------------------------------------- exports
\* Each export is given block by block: the entry block (the code up to the
\* first loop, or the whole body of a function without a loop) at pc "entry",
\* one iteration of its loop at pc "loop".

\* An entry block that only sets up the locals (already zero) of the loop.
Enter(g, f) == {Result(g, [f EXCEPT !.pc = "loop"], NoOutcome)}

\* infinite_loop with a loop bounded like spin's: while x < 2.
InfiniteLoopExits(g, f) ==
    IF f.pc = "entry" THEN Enter(g, f)
    ELSE IF f.x >= 2 THEN {Result(g, f, Returned(f.x))}
    ELSE {Result(g, [f EXCEPT !.x = WrappingAdd(f.x, 1)], NoOutcome)}

\* let mut x = 0; loop { x = x.wrapping_add(1) }
infinite_loop(g, f) ==
    IF f.pc = "entry" THEN Enter(g, f)
    ELSE {Result(g, [f EXCEPT !.x = WrappingAdd(f.x, 1)], NoOutcome)}

\* len = length.min(1024) as usize; for i in 0..len { BUFFER[i] = pattern }
\* BUFFER[i] is bounds-checked: an index past the array panics.
write_pattern(g, f) ==
    LET len == AsUsize(Min(f.arg, BUFFER_LEN))
    IN  IF f.pc = "entry" THEN Enter(g, f)
        ELSE IF f.i < len
        THEN IF f.i < BUFFER_LEN
             THEN {Result([g EXCEPT !.BUFFER[f.i] = f.pattern],
                          [f EXCEPT !.i = f.i + 1], NoOutcome)}
             ELSE {panic(g, f)}
        ELSE {Result(g, f, Returned(Wrap(len)))}

read_buffer(g, f) ==
    IF f.arg >= 0 /\ f.arg < BUFFER_LEN
    THEN {Result(g, f, Returned(g.BUFFER[f.arg]))}
    ELSE {Result(g, f, Returned(-1))}

scan_for_pattern(g, f) ==
    IF f.pc = "entry" THEN Enter(g, f)
    ELSE IF f.i < BUFFER_LEN
    THEN IF g.BUFFER[f.i] = f.pattern
         THEN {Result(g, f, Returned(f.i))}
         ELSE {Result(g, [f EXCEPT !.i = f.i + 1], NoOutcome)}
    ELSE {Result(g, f, Returned(-1))}

fill_incrementing(g, f) ==
    IF f.pc = "entry" THEN Enter(g, f)
    ELSE IF f.i < BUFFER_LEN
    THEN {Result([g EXCEPT !.BUFFER[f.i] = f.i % BYTE_MOD],
                 [f EXCEPT !.i = f.i + 1], NoOutcome)}
    ELSE {Result(g, f, Returned(BUFFER_LEN))}

\* *(0xFFFF_FFFF as *const i32): the address is neither aligned nor inside the
\* memory, so the dereference is undefined behaviour.  A build without debug
\* assertions emits the load, which traps out of bounds; a build with them
\* checks the alignment first and panics.
trap_out_of_bounds(g, f) ==
    {Result(g, f, Trapped("OutOfBoundsMemory")), panic(g, f)}

trap_unreachable(g, f) == {Result(g, f, Trapped("Unreachable"))}

\* a / 0: Rust checks the divisor before it divides and panics on zero; the
\* division instruction is never executed with a zero divisor.
trap_div_zero(g, f) == {panic(g, f)}

\* RecordIncrement writing HISTORY before STATE is incremented.
RecordIncrementStale(g) ==
    LET s == WrappingAdd(g.State, 1)
    IN  IF g.HISTORY_INDEX < HISTORY_LEN
        THEN [g EXCEPT !.State = s,
                       !.HISTORY[g.HISTORY_INDEX] = g.State,
                       !.HISTORY_INDEX = g.HISTORY_INDEX + 1]
        ELSE [g EXCEPT !.State = s]

\* RecordIncrement with HISTORY as a ring: a full history starts over at 0.
RecordIncrementRing(g) ==
    LET s == WrappingAdd(g.State, 1)
        at == IF g.HISTORY_INDEX < HISTORY_LEN THEN g.HISTORY_INDEX ELSE 0
    IN  [g EXCEPT !.State = s, !.HISTORY[at] = s, !.HISTORY_INDEX = at + 1]

\* STATE = STATE.wrapping_add(1);
\* if HISTORY_INDEX < 100 { HISTORY[HISTORY_INDEX] = STATE; HISTORY_INDEX += 1; }
RecordIncrement(g) ==
    LET s == WrappingAdd(g.State, 1)
    IN  IF g.HISTORY_INDEX < HISTORY_LEN
        THEN [g EXCEPT !.State = s,
                       !.HISTORY[g.HISTORY_INDEX] = s,
                       !.HISTORY_INDEX = g.HISTORY_INDEX + 1]
        ELSE [g EXCEPT !.State = s]

stateful_increment(g, f) ==
    LET h == RecordIncrement(g) IN {Result(h, f, Returned(h.State))}

get_state(g, f) == {Result(g, f, Returned(g.State))}

\* reset_state without HISTORY_INDEX = 0.
ResetStateKeepsIndex(g, f) ==
    IF f.pc = "entry"
    THEN {Result([g EXCEPT !.State = 0],
                 [f EXCEPT !.pc = "loop", !.i = 0], NoOutcome)}
    ELSE IF f.i < HISTORY_LEN
         THEN {Result([g EXCEPT !.HISTORY[f.i] = 0],
                      [f EXCEPT !.i = f.i + 1], NoOutcome)}
         ELSE {Result(g, f, Returned(0))}

reset_state(g, f) ==
    IF f.pc = "entry"
    THEN {Result([g EXCEPT !.State = 0, !.HISTORY_INDEX = 0],
                 [f EXCEPT !.pc = "loop", !.i = 0], NoOutcome)}
    ELSE IF f.i < HISTORY_LEN
         THEN {Result([g EXCEPT !.HISTORY[f.i] = 0],
                      [f EXCEPT !.i = f.i + 1], NoOutcome)}
         ELSE {Result(g, f, Returned(0))}

\* crash_after_n with the loop over 0..=n.
CrashAfterNInclusive(g, f) ==
    IF f.pc = "entry" THEN Enter(g, f)
    ELSE IF f.i <= f.arg
    THEN {Result(RecordIncrement(g), [f EXCEPT !.i = f.i + 1], NoOutcome)}
    ELSE {Result(g, f, Trapped("Unreachable"))}

\* for _ in 0..n { ... }; unreachable()
crash_after_n(g, f) ==
    IF f.pc = "entry" THEN Enter(g, f)
    ELSE IF f.i < f.arg
    THEN {Result(RecordIncrement(g), [f EXCEPT !.i = f.i + 1], NoOutcome)}
    ELSE {Result(g, f, Trapped("Unreachable"))}

\* increment_until_exhausted whose first increment happens before the loop.
IncrementUntilExhaustedEarly(g, f) ==
    {Result(RecordIncrement(g), [f EXCEPT !.pc = "loop"], NoOutcome)}

\* increment_until_exhausted whose iteration may run twice between two looks
\* at the fuel meter.
IncrementUntilExhaustedRacy(g, f) ==
    IF f.pc = "entry" THEN Enter(g, f)
    ELSE {Result(RecordIncrement(g), f, NoOutcome),
          Result(RecordIncrement(RecordIncrement(g)), f, NoOutcome)}

\* loop { STATE = ...; if HISTORY_INDEX < 100 { ... } }
increment_until_exhausted(g, f) ==
    IF f.pc = "entry" THEN Enter(g, f)
    ELSE {Result(RecordIncrement(g), f, NoOutcome)}

\* The block the activation f is at, run on the globals g: the set of its
\* possible results (more than one only for undefined behaviour).
Block(g, f) ==
    CASE f.pc = "panic"                          -> {panic(g, f)}
      [] f.export = "infinite_loop"              -> infinite_loop(g, f)
      [] f.export = "write_pattern"              -> write_pattern(g, f)
      [] f.export = "read_buffer"                -> read_buffer(g, f)
      [] f.export = "scan_for_pattern"           -> scan_for_pattern(g, f)
      [] f.export = "fill_incrementing"          -> fill_incrementing(g, f)
      [] f.export = "trap_out_of_bounds"         -> trap_out_of_bounds(g, f)
      [] f.export = "trap_unreachable"           -> trap_unreachable(g, f)
      [] f.export = "trap_div_zero"              -> trap_div_zero(g, f)
      [] f.export = "stateful_increment"         -> stateful_increment(g, f)
      [] f.export = "get_state"                  -> get_state(g, f)
      [] f.export = "reset_state"                -> reset_state(g, f)
      [] f.export = "crash_after_n"              -> crash_after_n(g, f)
      [] f.export = "increment_until_exhausted"  -> increment_until_exhausted(g, f)

\* ------------------------------------------------------------- is_prime

\* An integer operation on i32 that overflowed: a build with overflow checks
\* panics, a build without them wraps.
Panicked == [kind |-> "Panicked", value |-> 0, trap |-> "-"]

Overflows(x) == x \notin I32

RECURSIVE is_prime_loop(_, _, _)
\* while i * i <= n { if n % i == 0 || n % (i + 2) == 0 { return 0 }; i += 6 }; 1
is_prime_loop(n, i, checks) ==
    IF checks /\ Overflows(i * i) THEN Panicked
    ELSE IF Wrap(i * i) <= n
    THEN IF Rem(n, i) = 0 THEN Returned(0)
         ELSE IF checks /\ Overflows(i + 2) THEN Panicked
         ELSE IF Rem(n, Wrap(i + 2)) = 0 THEN Returned(0)
         ELSE IF checks /\ Overflows(i + 6) THEN Panicked
         ELSE is_prime_loop(n, Wrap(i + 6), checks)
    ELSE Returned(1)

is_prime(n, checks) ==
    IF n <= 1 THEN Returned(0)
    ELSE IF n <= 3 THEN Returned(1)
    ELSE IF Rem(n, 2) = 0 \/ Rem(n, 3) = 0 THEN Returned(0)
    ELSE is_prime_loop(n, 5, checks)

RECURSIVE count_primes_loop(_, _, _, _)
\* for i in 2..=n { if is_prime(i) == 1 { count += 1 } }; count
count_primes_loop(n, i, count, checks) ==
    IF i > n THEN Returned(count)
    ELSE LET p == is_prime(i, checks)
         IN  IF p = Panicked THEN Panicked
             ELSE count_primes_loop(n, i + 1,
                                    IF p.value = 1 THEN count + 1 ELSE count,
                                    checks)

count_primes(n, checks) == count_primes_loop(n, 2, 0, checks)

\* ------------------------------------------------------------- the host
\* The execution engine of sections 3 and 4.1-4.2 of the specification.

VARIABLES
    inst,      \* the Instance's globals
    frame,     \* the activation of the running export, or Idle
    outcome,   \* the ExecutionOutcome of the last invocation
    entry,     \* observer: the invocation last started, with the globals it found
    iters,     \* observer: loop iterations the running invocation has completed
    since,     \* observer: stateful_increment calls completed since a fresh or reset Instance
    twin,      \* a second Instance replaying the same invocations
    script,    \* the invocations made so far, for the second Instance
    log,       \* what each finished invocation of the first Instance left behind
    prime      \* the last call of is_prime or count_primes and its result

vars == <<inst, frame, outcome, entry, iters, since, twin, script, log, prime>>

\* Counting stateful_increment calls stops here.
MaxK == 2^(INT_BITS - 1) + 2

Fuels == 1..MaxFuel

Call(e, p, a, b) == [export |-> e, pattern |-> p, arg |-> a, budget |-> b]

\* invoke(instance, export_name, args, fuel_budget): the activation starts at
\* the export's entry with the whole budget.
Activation(c) ==
    [export |-> c.export, pc |-> "entry", fuel |-> c.budget,
     pattern |-> c.pattern, arg |-> c.arg, i |-> 0, x |-> 0]

\* One metered step of the engine: with fuel left, the next block runs and
\* costs one unit; a block that returns or traps ends the invocation.
Tick(g, f) ==
    { [inst    |-> r.inst,
       frame   |-> IF r.out = NoOutcome
                   THEN [r.frame EXCEPT !.fuel = f.fuel - 1]
                   ELSE Idle,
       outcome |-> r.out] : r \in Block(g, f) }

\* With the budget at zero the invocation stops where it is: FuelExhausted,
\* and nothing more is written.
Halt(g, f) == [inst |-> g, frame |-> Idle, outcome |-> FuelExhausted]

\* The exports that write STATE, HISTORY or HISTORY_INDEX in a loop.
Rewriters == {"reset_state", "crash_after_n", "increment_until_exhausted"}

NotCounting == [origin |-> "none", k |-> 0]

SinceAfter(c, out) ==
    IF c.export = "reset_state" /\ out.kind = "Returned"
        THEN [origin |-> "reset", k |-> 0]
    ELSE IF c.export = "stateful_increment" /\ out.kind = "Returned"
             /\ since.origin # "none"
        THEN IF since.k < MaxK THEN [since EXCEPT !.k = since.k + 1]
             ELSE NotCounting
    ELSE since

Invoke(c) ==
    /\ frame.export = "idle"
    /\ frame' = Activation(c)
    /\ outcome' = NoOutcome
    /\ entry' = [call |-> c, inst |-> inst]
    /\ iters' = 0
    /\ since' = IF c.export \in Rewriters THEN NotCounting ELSE since
    /\ UNCHANGED inst

StepCore ==
    /\ frame.export # "idle"
    /\ frame.fuel > 0
    /\ \E t \in Tick(inst, frame) :
          /\ inst' = t.inst
          /\ frame' = t.frame
          /\ outcome' = t.outcome
          /\ iters' = IF t.outcome = NoOutcome /\ frame.pc = "loop"
                      THEN iters + 1 ELSE iters
          /\ since' = SinceAfter(entry.call, t.outcome)
    /\ UNCHANGED entry

ExhaustCore ==
    /\ frame.export # "idle"
    /\ frame.fuel = 0
    /\ inst' = Halt(inst, frame).inst
    /\ frame' = Halt(inst, frame).frame
    /\ outcome' = Halt(inst, frame).outcome
    /\ UNCHANGED <<entry, iters, since>>

Others == <<twin, script, log, prime>>

Step == StepCore /\ UNCHANGED Others

Exhaust == ExhaustCore /\ UNCHANGED Others

\* The arguments tried.
CrashArgs == (-1)..MaxN
Lengths == {-1, 0, 1, BUFFER_LEN, BUFFER_LEN + 1, MaxInt}
Patterns == {171, 7}
Indexes == {-1, 0, BUFFER_LEN - 1, BUFFER_LEN, MaxInt}

InvokeStateful ==
    /\ \E e \in {"stateful_increment", "get_state", "reset_state",
                 "increment_until_exhausted"}, b \in Fuels :
          Invoke(Call(e, 0, 0, b))
    /\ UNCHANGED Others

InvokeCrash ==
    /\ \E n \in CrashArgs, b \in Fuels : Invoke(Call("crash_after_n", 0, n, b))
    /\ UNCHANGED Others

InvokeTrap ==
    /\ \E e \in {"trap_out_of_bounds", "trap_unreachable", "trap_div_zero"},
          a \in {0, 1}, b \in Fuels :
          Invoke(Call(e, 0, IF e = "trap_div_zero" THEN a ELSE 0, b))
    /\ UNCHANGED Others

InvokeLoop ==
    /\ \E b \in Fuels : Invoke(Call("infinite_loop", 0, 0, b))
    /\ UNCHANGED Others

InvokeWrite ==
    /\ \E len \in {-1, 1, MaxInt}, b \in Fuels :
          Invoke(Call("write_pattern", 171, len, b))
    /\ UNCHANGED Others

IdleTwin == [inst |-> FreshInstance, frame |-> Idle, outcome |-> NoOutcome,
             pos |-> 0, log |-> <<>>]

NoPrime == [fn |-> "-", n |-> 0, checks |-> FALSE, result |-> NoOutcome]

Init ==
    /\ inst = FreshInstance
    /\ frame = Idle
    /\ outcome = NoOutcome
    /\ entry = [call |-> Call("idle", 0, 0, 0), inst |-> FreshInstance]
    /\ iters = 0
    /\ since = [origin |-> "fresh", k |-> 0]
    /\ twin = IdleTwin
    /\ script = <<>>
    /\ log = <<>>
    /\ prime = NoPrime

Next ==
    \/ InvokeStateful
    \/ InvokeCrash
    \/ InvokeTrap
    \/ InvokeLoop
    \/ InvokeWrite
    \/ Step
    \/ Exhaust

Spec == Init /\ [][Next]_vars

\* ------------------------------------------ the loops, run to their end

NextLoop ==
    \/ InvokeLoop
    \/ InvokeStateful
    \/ Step
    \/ Exhaust

\* invoke is synchronous: the engine runs a started invocation on until it
\* has stopped.
FairSpec == Init /\ [][NextLoop]_vars /\ WF_vars(Step) /\ WF_vars(Exhaust)

\* ------------------------------------------------- the memory exports alone

InvokeWritePattern ==
    /\ \E p \in Patterns, len \in Lengths, b \in Fuels :
          Invoke(Call("write_pattern", p, len, b))
    /\ UNCHANGED Others

InvokeReadBuffer ==
    /\ \E index \in Indexes, b \in Fuels : Invoke(Call("read_buffer", 0, index, b))
    /\ UNCHANGED Others

InvokeScan ==
    /\ \E p \in Patterns \cup {0, 1}, b \in Fuels :
          Invoke(Call("scan_for_pattern", p, 0, b))
    /\ UNCHANGED Others

InvokeFill ==
    /\ \E b \in Fuels : Invoke(Call("fill_incrementing", 0, 0, b))
    /\ UNCHANGED Others

NextMem ==
    \/ InvokeWritePattern
    \/ InvokeReadBuffer
    \/ InvokeScan
    \/ InvokeFill
    \/ Step
    \/ Exhaust

SpecMem == Init /\ [][NextMem]_vars

\* ------------------------------------------------ is_prime, count_primes

CallIsPrime ==
    /\ \E n \in I32, checks \in BOOLEAN :
          prime' = [fn |-> "is_prime", n |-> n, checks |-> checks,
                    result |-> is_prime(n, checks)]
    /\ UNCHANGED <<inst, frame, outcome, entry, iters, since, twin, script, log>>

CallCountPrimes ==
    /\ \E n \in I32, checks \in BOOLEAN :
          prime' = [fn |-> "count_primes", n |-> n, checks |-> checks,
                    result |-> count_primes(n, checks)]
    /\ UNCHANGED <<inst, frame, outcome, entry, iters, since, twin, script, log>>

NextPrime == CallIsPrime \/ CallCountPrimes

SpecPrime == Init /\ [][NextPrime]_vars

\* ------------------------------------- two Instances, the same invocations

DetFuels == 1..Min(MaxFuel, 3)

Snapshot(g, out) == [outcome |-> out, inst |-> g]

DetInvoke ==
    /\ Len(script) < MaxScript
    /\ \E e \in {"stateful_increment", "reset_state", "crash_after_n",
                 "increment_until_exhausted"}, b \in DetFuels :
          LET c == Call(e, 0, IF e = "crash_after_n" THEN 1 ELSE 0, b)
          IN  Invoke(c) /\ script' = Append(script, c)
    /\ UNCHANGED <<twin, log, prime>>

DetStep ==
    /\ StepCore \/ ExhaustCore
    /\ log' = IF frame'.export = "idle"
              THEN Append(log, Snapshot(inst', outcome')) ELSE log
    /\ UNCHANGED <<twin, script, prime>>

TwinInvoke ==
    /\ twin.frame.export = "idle"
    /\ twin.pos < Len(script)
    /\ twin' = [twin EXCEPT !.frame = Activation(script[twin.pos + 1]),
                            !.outcome = NoOutcome,
                            !.pos = twin.pos + 1]
    /\ UNCHANGED <<inst, frame, outcome, entry, iters, since, script, log, prime>>

TwinStep ==
    /\ twin.frame.export # "idle"
    /\ \E t \in (IF twin.frame.fuel > 0 THEN Tick(twin.inst, twin.frame)
                 ELSE {Halt(twin.inst, twin.frame)}) :
          twin' = [twin EXCEPT
                     !.inst = t.inst, !.frame = t.frame, !.outcome = t.outcome,
                     !.log = IF t.frame.export = "idle"
                             THEN Append(twin.log, Snapshot(t.inst, t.outcome))
                             ELSE twin.log]
    /\ UNCHANGED <<inst, frame, outcome, entry, iters, since, script, log, prime>>

NextDet == DetInvoke \/ DetStep \/ TwinInvoke \/ TwinStep

SpecDet == Init /\ [][NextDet]_vars

\* ------------------------------------------------------------ properties

\* The last invocation was of export e and has stopped.
Finished(e) ==
    frame.export = "idle" /\ entry.call.export = e /\ outcome.kind # "None"

\* STATE, HISTORY and HISTORY_INDEX as instantiated.
Fresh(g) ==
    g.State = 0 /\ g.HISTORY_INDEX = 0 /\ g.HISTORY = Zeros(HISTORY_LEN)

\* HISTORY after k recorded increments of a zeroed Instance.
HistoryOf(k) == [j \in 0..(HISTORY_LEN - 1) |-> IF j < k THEN j + 1 ELSE 0]

\* The Instance after k calls of stateful_increment, the last result being
\* `last`, with STATE counted by count(k).
AfterCalls(k, last) ==
    /\ inst.State = last
    /\ inst.HISTORY_INDEX = Min(k, HISTORY_LEN)
    /\ inst.HISTORY = HistoryOf(k)
    /\ Finished("stateful_increment") => outcome = Returned(last)
    /\ Finished("get_state") => outcome = Returned(last)

\* C1 as stated: after k calls of stateful_increment on a fresh Instance,
\* get_state returns k, the k-th call returned k, and HISTORY holds the values
\* 1..min(k, HISTORY_LEN) in its first min(k, HISTORY_LEN) slots.
C1_Original == since.origin = "fresh" => AfterCalls(since.k, since.k)

\* C1 amended: the same, with STATE and the returned values equal to k wrapped
\* to i32 (k itself while k <= i32::MAX).
C1_Amended == since.origin = "fresh" => AfterCalls(since.k, Wrap(since.k))

C1_Witness ==
    /\ since.origin = "fresh"
    /\ since.k = MaxInt + 1
    /\ Finished("get_state")
    /\ outcome = Returned(MinInt)

\* C2: a reset_state that returned has returned 0 and left STATE = 0,
\* HISTORY_INDEX = 0, HISTORY all zero and BUFFER as it found it, whatever was
\* invoked before; the stateful_increment calls that follow behave as on a
\* fresh Instance.
C2_Reset ==
    /\ (Finished("reset_state") /\ outcome.kind = "Returned") =>
          /\ outcome = Returned(0)
          /\ Fresh(inst)
          /\ inst.BUFFER = entry.inst.BUFFER
    /\ since.origin = "reset" => AfterCalls(since.k, Wrap(since.k))

C2_WitnessRun ==
    /\ since.origin = "reset"
    /\ since.k = HISTORY_LEN + 1
    /\ Finished("stateful_increment")
    /\ inst.BUFFER[0] = 171

C2_Witness ==
    /\ Finished("reset_state")
    /\ outcome.kind = "Returned"
    /\ entry.inst.HISTORY_INDEX = HISTORY_LEN
    /\ entry.inst.State < 0
    /\ entry.inst.BUFFER[0] = 171

\* C3: crash_after_n(n), n >= 0, on a fresh Instance never returns; with fuel
\* for its n iterations it ends in Trapped(Unreachable), and the Instance then
\* has STATE = n and the first min(n, HISTORY_LEN) history entries.
C3_Crash ==
    Finished("crash_after_n") =>
       /\ outcome.kind # "Returned"
       /\ (Fresh(entry.inst) /\ entry.call.arg >= 0) =>
             /\ entry.call.budget >= entry.call.arg + 2 =>
                   outcome = Trapped("Unreachable")
             /\ outcome.kind = "Trapped" =>
                   /\ outcome = Trapped("Unreachable")
                   /\ inst.State = entry.call.arg
                   /\ inst.HISTORY_INDEX = Min(entry.call.arg, HISTORY_LEN)
                   /\ inst.HISTORY = HistoryOf(entry.call.arg)

C3_Witness ==
    /\ Finished("crash_after_n")
    /\ Fresh(entry.inst)
    /\ entry.call.arg = HISTORY_LEN + 1
    /\ outcome = Trapped("Unreachable")
    /\ inst.State = HISTORY_LEN + 1

\* The trap a deliberate-crash export is to end in.
TrapKindOf(e) ==
    CASE e = "trap_out_of_bounds" -> "OutOfBoundsMemory"
      [] e = "trap_unreachable"   -> "Unreachable"
      [] e = "trap_div_zero"      -> "DivideByZero"

\* C4, all three clauses: with fuel for more than its one block, each
\* deliberate-crash export ends in Trapped of its own kind, never in Returned
\* or FuelExhausted.
C4_Traps ==
    \A e \in {"trap_out_of_bounds", "trap_unreachable", "trap_div_zero"} :
        (Finished(e) /\ entry.call.budget >= 2) => outcome = Trapped(TrapKindOf(e))

\* C4, the trap_div_zero clause: with fuel for more than its one block,
\* trap_div_zero ends in Trapped(DivideByZero), never in Returned or
\* FuelExhausted.
C4_DivZero ==
    (Finished("trap_div_zero") /\ entry.call.budget >= 2) =>
        outcome = Trapped("DivideByZero")

\* C5: an invocation of infinite_loop never returns, loses one unit of fuel
\* with every block and none below zero, and ends in FuelExhausted.
C5_InfiniteLoop ==
    /\ [](Finished("infinite_loop") => outcome = FuelExhausted)
    /\ [][frame.export = "infinite_loop" =>
             \/ frame'.export = "infinite_loop" /\ frame'.fuel = frame.fuel - 1
                   /\ frame'.fuel >= 0
             \/ frame'.export = "idle" /\ frame.fuel = 0]_vars
    /\ (frame.export = "infinite_loop") ~>
          (Finished("infinite_loop") /\ outcome = FuelExhausted)

C5_Witness ==
    /\ Finished("infinite_loop")
    /\ outcome = FuelExhausted
    /\ entry.call.budget = MaxFuel

\* The exports whose loop records increments.
Incrementers == {"crash_after_n", "increment_until_exhausted"}

\* What an incrementing loop stopped after iters iterations has left, STATE
\* being `state`.
LeftBehind(state) ==
    /\ inst.State = state
    /\ inst.HISTORY_INDEX = Min(entry.inst.HISTORY_INDEX + iters, HISTORY_LEN)
    /\ inst.BUFFER = entry.inst.BUFFER

\* C6 as stated: an incrementing loop stopped by FuelExhausted or a trap after
\* j completed iterations has left STATE = initial STATE + j.
C6_Original ==
    \A e \in Incrementers :
        (Finished(e) /\ outcome.kind \in {"FuelExhausted", "Trapped"}) =>
            LeftBehind(entry.inst.State + iters)

C6_StoppedState ==
    /\ \A e \in Incrementers :
          (Finished(e) /\ outcome.kind \in {"FuelExhausted", "Trapped"}) =>
              LeftBehind(Wrap(entry.inst.State + iters))
    /\ Finished("increment_until_exhausted") =>
          outcome = FuelExhausted /\ iters = entry.call.budget - 1

\* C6 amended: the step that stops an invocation with FuelExhausted or Trapped
\* writes nothing, a step taken with the budget at zero is that stop, nothing
\* is written while no invocation runs, and an incrementing loop stopped after
\* j completed iterations has left STATE = initial STATE + j wrapped to i32.
C6_Amended ==
    /\ []C6_StoppedState
    /\ [][/\ (outcome.kind = "None" /\ outcome'.kind \in {"FuelExhausted", "Trapped"})
                => inst' = inst
          /\ (frame.export # "idle" /\ frame.fuel = 0)
                => (inst' = inst /\ outcome' = FuelExhausted)
          /\ frame.export = "idle" => inst' = inst]_vars

C6_Witness ==
    /\ Finished("increment_until_exhausted")
    /\ outcome = FuelExhausted
    /\ iters >= 2
    /\ entry.inst.State = MaxInt
    /\ inst.State = MinInt + iters - 1

Max(a, b) == IF a >= b THEN a ELSE b

\* C8: write_pattern(pattern, length) given fuel for the whole buffer returns
\* the number of bytes written, having set the first min(length, BUFFER_LEN)
\* bytes to pattern and no other; read_buffer(i) returns byte i of the buffer
\* and -1 for i outside it.
C8_WritePattern ==
    /\ (Finished("write_pattern") /\ entry.call.budget >= BUFFER_LEN + 2) =>
          LET n == Min(entry.call.arg, BUFFER_LEN)
          IN  /\ outcome = Returned(Max(n, 0))
              /\ inst.BUFFER = [j \in 0..(BUFFER_LEN - 1) |->
                                  IF j < n THEN entry.call.pattern
                                  ELSE entry.inst.BUFFER[j]]
    /\ Finished("read_buffer") =>
          outcome = Returned(IF entry.call.arg \in 0..(BUFFER_LEN - 1)
                             THEN inst.BUFFER[entry.call.arg] ELSE -1)

IsPrimeNumber(n) == n >= 2 /\ \A d \in 2..(n - 1) : n % d # 0

\* C9: is_prime(n) returns 1 when n is prime and 0 otherwise, for every i32 n
\* and in every build; count_primes(n) returns the number of primes in 2..n.
C9_Primes ==
    /\ prime.fn = "is_prime" =>
          prime.result = Returned(IF IsPrimeNumber(prime.n) THEN 1 ELSE 0)
    /\ prime.fn = "count_primes" =>
          prime.result = Returned(Cardinality({q \in 2..prime.n : IsPrimeNumber(q)}))

\* C10: HISTORY_INDEX stays within 0..HISTORY_LEN; no step of an export other
\* than reset_state lowers it; with HISTORY_INDEX = HISTORY_LEN no such step
\* changes HISTORY, and a step that then changes STATE adds one to it.
C10_History ==
    /\ [](inst.HISTORY_INDEX \in 0..HISTORY_LEN)
    /\ [][frame.export # "reset_state" =>
             /\ inst'.HISTORY_INDEX >= inst.HISTORY_INDEX
             /\ inst.HISTORY_INDEX = HISTORY_LEN =>
                   /\ inst'.HISTORY = inst.HISTORY
                   /\ inst'.State # inst.State =>
                         inst'.State = WrappingAdd(inst.State, 1)]_vars

C10_Witness ==
    /\ inst.HISTORY_INDEX = HISTORY_LEN
    /\ inst.HISTORY = HistoryOf(HISTORY_LEN)
    /\ inst.State = HISTORY_LEN + 2
    /\ Finished("increment_until_exhausted")
====
